---- MODULE Spec2Model ----
(***************************************************************************)
(* Undo/redo history hook (useHistory), the canvas event wiring that       *)
(* feeds it (FabricCanvas) and the page operations of the design store     *)
(* (useDesignStore) of the appic editor.                                   *)
(*                                                                         *)
(* React state is modelled by its pending value: functional updaters       *)
(* (setHistory(prev => ...), setCurrentIndex(prev => ...)) are applied in  *)
(* call order, while the values a callback closed over (currentIndex in    *)
(* saveHistory) are those of the last render.  Every action is one         *)
(* event-handler turn followed by the re-render, so the closure value of a *)
(* turn is the value the variable has when the action starts.              *)
(*                                                                         *)
(* canvas.loadFromJSON(json, f) is the Fabric.js 7 call (README.md:27):    *)
(* it returns a promise, f is the reviver that runs once for every object  *)
(* that has been rebuilt, and only after all objects are rebuilt the scene *)
(* is cleared (object:removed per object) and refilled (object:added per   *)
(* object).  Custom properties such as id are not part of toJSON().        *)
(***************************************************************************)
EXTENDS Integers, Sequences, FiniteSets, TLC

\* ---- program constants ----
MAX_HISTORY_SIZE == 50

\* ---- bounds of the model ----
MaxObjects == 2      \* objects on the canvas at one time
MaxTurns == 4        \* user turns (edits, undo, redo) explored by Spec
MaxReplays == 2      \* loadFromJSON calls in flight at one time
MaxPages == 3        \* pages ever created in SpecStore
HistPages == 1       \* pages ever created in Spec and SpecCap
MaxPending == 2      \* persistence requests in flight when a page action starts
StorePending == 1    \* persistence requests in flight in SpecStore
CapTurns == 52       \* user turns explored by SpecCap (more than the cap)
MaxAdds == 2         \* objects ever created in SpecCap
LoadPages == 2       \* pages ever created in SpecLoad
LoadTurns == 1       \* edits of the scene explored by SpecLoad and SpecPersist
MaxLoads == 2        \* loadPageData calls scheduled or running at one time
MaxReloads == 1      \* browser reloads explored by SpecLoad
MaxSwitches == 2     \* setActivePage calls explored by SpecLoad
LayerTurns == 4      \* user turns explored by SpecLayer and SpecToggle
MaxLayers == 2       \* layers ever created in SpecLayer and SpecToggle
OrderTurns == 6      \* user turns explored by SpecOrder
OrderLayers == 3     \* layers ever created in SpecOrder

VARIABLES
    canvas,            \* useHistory's canvas argument is non-null
    scene,             \* canvas.getObjects(): sequence of [id, attr]
    activeObject,      \* canvas.getActiveObject(): index into scene, 0 = none
    nextObjectId,      \* generateId() for scene objects
    history,           \* useHistory: history (string[])
    currentIndex,      \* useHistory: currentIndex
    isInternalChange,  \* useHistory: isInternalChange.current
    replays,           \* loadFromJSON promises in flight
    captureIds,        \* ghost: ordinal of the capture that produced history[k]
    nCaptures,         \* ghost: number of snapshots taken so far
    lastSaves,         \* ghost: the saveHistory calls of the last turn
    lastOp,            \* ghost: the handler that ran last
    lastArg,           \* ghost: its argument
    thrown,            \* ghost: an exception or rejection escaped from the last handler
    failFrom,          \* ghost: position before the navigation that failed
    rt,                \* ghost: undo-then-redo round trip in progress
    turns,             \* ghost: user turns taken
    pages,             \* design.pages (ids, in order)
    activePageId,      \* design.activePageId, 0 = ''
    nextPageId,        \* generateId('page')
    canvasRefs,        \* canvasRefs: set of page ids with a registered canvas
    pageData,          \* IndexedDB pageData store: page id -> canvasJSON
    pending,           \* persistence requests in flight
    switches,          \* setActivePage calls suspended at await savePageData
    loads,             \* loadPageData calls scheduled by FabricCanvas or running
    sessions,          \* ghost: browser reloads so far
    nSwitches,         \* ghost: setActivePage calls so far in SpecLoad
    delDone,           \* ghost: pages whose deletePage has completed
    layers,            \* page.layers: page id -> sequence of layer records
    activeLayerId,     \* page.activeLayerId: page id -> layer id, 0 = undefined
    nextLayerId,       \* generateId('layer')
    flags,             \* attributes of the scene objects, by object id
    lastCalls,         \* ghost: calls made on scene objects by the last action
    vt                 \* ghost: two visibility toggles of one layer in a row

histVars == <<canvas, scene, activeObject, nextObjectId, history, currentIndex,
              isInternalChange, replays, captureIds, nCaptures, lastSaves,
              thrown, failFrom, rt, turns>>
storeVars == <<pages, activePageId, nextPageId, canvasRefs, pageData, pending,
               switches>>
loadVars == <<loads, sessions, nSwitches, delDone>>
layerVars == <<layers, activeLayerId, nextLayerId, flags, lastCalls, vt>>
vars == <<histVars, storeVars, lastOp, lastArg, loadVars, layerVars>>

Min(a, b) == IF a < b THEN a ELSE b

NoData == <<[none |-> TRUE]>>
NoRt == [phase |-> 0, json |-> <<>>, index |-> -1]
NoVt == [phase |-> 0, layer |-> 0, visible |-> TRUE, objVisible |-> TRUE,
         first |-> TRUE, second |-> TRUE]

\* ---- serialisation --------------------------------------------------------

\* canvas.toJSON(): the serialised attributes of every object; id is dropped
toJSON(sc) == [k \in 1..Len(sc) |-> [attr |-> sc[k].attr]]

\* objects rebuilt by loadFromJSON: attributes from the snapshot, no id
enlivenObjects(json) == [k \in 1..Len(json) |-> [id |-> 0, attr |-> json[k].attr]]

\* ---- useHistory.saveHistory ------------------------------------------------

\* a variant of the slice that stops one entry early: prev.slice(0, currentIndex)
SliceToShort(prev, c) == SubSeq(prev, 1, Min(c, Len(prev)))

\* prev.slice(0, c + 1)
SliceTo(prev, c) == SubSeq(prev, 1, Min(c + 1, Len(prev)))

\* s.slice(-n)
SliceLast(s, n) == IF Len(s) <= n THEN s ELSE SubSeq(s, Len(s) - n + 1, Len(s))

\* the updater given to setHistory; c is the currentIndex the callback closed over
SetHistory(prev, c, json) == SliceLast(SliceTo(prev, c) \o <<json>>, MAX_HISTORY_SIZE)

\* the updater given to setCurrentIndex
SetCurrentIndex(prev) == Min(prev + 1, MAX_HISTORY_SIZE - 1)

\* One call of saveHistory() on the pending hook state st, by a callback that
\* closed over canvas cv and index c, when the scene is sc and the guard flag
\* is flag.
SaveHistory(st, cv, c, flag, sc, inReplay) ==
    IF ~cv \/ flag
    THEN [st EXCEPT !.log = Append(@,
            [blocked |-> TRUE, inReplay |-> inReplay, json |-> toJSON(sc),
             prevH |-> st.h, prevI |-> st.i, newH |-> st.h, newI |-> st.i])]
    ELSE LET json == toJSON(sc)
             nh == SetHistory(st.h, c, json)
             ni == SetCurrentIndex(st.i)
         IN [h |-> nh, i |-> ni,
             ids |-> SetHistory(st.ids, c, st.n + 1),
             n |-> st.n + 1,
             log |-> Append(st.log,
                [blocked |-> FALSE, inReplay |-> inReplay, json |-> json,
                 prevH |-> st.h, prevI |-> st.i, newH |-> nh, newI |-> ni])]

\* the saveHistory() calls of one turn, one per scene in scs, in order
RECURSIVE SaveAll(_, _, _, _, _, _)
SaveAll(st, cv, c, flag, scs, inReplay) ==
    IF scs = <<>> THEN st
    ELSE SaveAll(SaveHistory(st, cv, c, flag, Head(scs), inReplay), cv, c, flag,
                 Tail(scs), inReplay)

\* the pending hook state at the start of a turn
Hook == [h |-> history, i |-> currentIndex, ids |-> captureIds,
         n |-> nCaptures, log |-> <<>>]

\* commit the hook state reached at the end of a turn
Commit(st) ==
    /\ history' = st.h
    /\ currentIndex' = st.i
    /\ captureIds' = st.ids
    /\ nCaptures' = st.n
    /\ lastSaves' = st.log

InFlight == replays # <<>>

Init ==
    /\ canvas = FALSE
    /\ scene = <<>>
    /\ activeObject = 0
    /\ nextObjectId = 1
    /\ history = <<>>
    /\ currentIndex = -1
    /\ isInternalChange = FALSE
    /\ replays = <<>>
    /\ captureIds = <<>>
    /\ nCaptures = 0
    /\ lastSaves = <<>>
    /\ lastOp = "init"
    /\ lastArg = 0
    /\ thrown = FALSE
    /\ failFrom = -1
    /\ rt = NoRt
    /\ turns = 0
    /\ pages = <<>>
    /\ activePageId = 0
    /\ nextPageId = 1
    /\ canvasRefs = {}
    /\ pageData = [p \in 1..MaxPages + 1 |-> NoData]
    /\ pending = <<>>
    /\ switches = <<>>
    /\ loads = <<>>
    /\ sessions = 0
    /\ nSwitches = 0
    /\ delDone = {}
    /\ layers = [p \in 1..MaxPages + 1 |-> <<>>]
    /\ activeLayerId = [p \in 1..MaxPages + 1 |-> 0]
    /\ nextLayerId = 1
    /\ flags = <<>>
    /\ lastCalls = <<>>
    /\ vt = NoVt

\* ---- useDesignStore.saveCurrentPageData ----------------------------------

\* the savePageData requests issued by saveCurrentPageData(), one per scene
SaveCurrentPageData(scs) ==
    IF activePageId = 0 \/ activePageId \notin canvasRefs THEN <<>>
    ELSE [k \in 1..Len(scs) |->
            [op |-> "savePageData", page |-> activePageId,
             json |-> toJSON(scs[k]), then |-> "none"]]

\* ---- ghost bookkeeping -----------------------------------------------------

Quiet == thrown' = FALSE /\ failFrom' = -1

Op(name, arg) == lastOp' = name /\ lastArg' = arg

UserTurn == turns' = turns + 1

\* ---- FabricCanvas / useHistory: mount ------------------------------------

\* The canvas is created, registered (onReady -> setCanvasRef) and the hook is
\* rendered with it; the effect of useHistory then takes the first snapshot.
CanvasReady ==
    /\ ~canvas
    /\ activePageId # 0
    /\ canvas' = TRUE
    /\ canvasRefs' = canvasRefs \cup {activePageId}
    /\ IF Len(history) = 0
       THEN Commit(SaveHistory(Hook, TRUE, currentIndex, isInternalChange, scene, InFlight))
       ELSE Commit(Hook)
    /\ Op("ready", 0) /\ Quiet /\ rt' = NoRt
    /\ UNCHANGED <<scene, activeObject, nextObjectId, isInternalChange, replays, turns>>
    /\ UNCHANGED <<pages, activePageId, nextPageId, pageData, pending, switches>>

\* ---- user edits ------------------------------------------------------------

\* handleHistorySave: saveHistory() and saveCurrentPageData(), once per scene
HandleHistorySave(scs) ==
    /\ Commit(SaveAll(Hook, canvas, currentIndex, isInternalChange, scs, InFlight))
    /\ pending' = pending \o SaveCurrentPageData(scs)

\* CanvasArea.handleAddItem: canvas.add fires object:added
AddObjectTurn ==
    /\ canvas
    /\ activePageId # 0
    /\ Len(scene) < MaxObjects
    /\ LET sc == Append(scene, [id |-> nextObjectId, attr |-> 0])
       IN /\ scene' = sc
          /\ activeObject' = Len(sc)
          /\ HandleHistorySave(<<sc>>)
    /\ nextObjectId' = nextObjectId + 1
    /\ Op("add", 0) /\ Quiet /\ rt' = NoRt
    /\ UNCHANGED <<canvas, isInternalChange, replays>>
    /\ UNCHANGED <<pages, activePageId, nextPageId, canvasRefs, pageData, switches>>

RemoveAt(s, k) == SubSeq(s, 1, k - 1) \o SubSeq(s, k + 1, Len(s))

\* keydown Delete/Backspace: canvas.remove fires object:removed
\* (handleHistorySave), then the handler calls saveHistory() and
\* saveCurrentPageData() itself.
DeleteKeyTurn ==
    /\ canvas
    /\ activeObject # 0
    /\ scene[activeObject].id # 0
    /\ LET sc == RemoveAt(scene, activeObject)
       IN /\ scene' = sc
          /\ HandleHistorySave(<<sc, sc>>)
    /\ activeObject' = 0
    /\ Op("delete", scene[activeObject].id) /\ Quiet /\ rt' = NoRt
    /\ UNCHANGED <<canvas, nextObjectId, isInternalChange, replays>>
    /\ UNCHANGED <<pages, activePageId, nextPageId, canvasRefs, pageData, switches>>

\* a drag/resize/rotate gesture on object k ends: object:modified
ModifyTurn(k, v) ==
    /\ canvas
    /\ k \in 1..Len(scene)
    /\ v # scene[k].attr
    /\ LET sc == [scene EXCEPT ![k].attr = v]
       IN /\ scene' = sc
          /\ HandleHistorySave(<<sc>>)
    /\ activeObject' = k
    /\ Op("modify", k) /\ Quiet /\ rt' = NoRt
    /\ UNCHANGED <<canvas, nextObjectId, isInternalChange, replays>>
    /\ UNCHANGED <<pages, activePageId, nextPageId, canvasRefs, pageData, switches>>

\* object:moving / object:scaling / object:rotating while the gesture on
\* object k goes on: the object follows the pointer and the handler only calls
\* setIsDragging(true)
ObjectMoving(k, v) ==
    /\ canvas
    /\ k \in 1..Len(scene)
    /\ v # scene[k].attr
    /\ scene' = [scene EXCEPT ![k].attr = v]
    /\ activeObject' = k
    /\ Op("moving", k) /\ lastSaves' = <<>> /\ Quiet /\ rt' = NoRt
    /\ UNCHANGED <<canvas, nextObjectId, history, currentIndex, isInternalChange,
                   replays, captureIds, nCaptures, turns>>
    /\ UNCHANGED storeVars

\* PropertyPanel.handlePropertyChange: selectedObject.set(property, value)
PropertyTurn(v) ==
    /\ canvas
    /\ activeObject # 0
    /\ v # scene[activeObject].attr
    /\ scene' = [scene EXCEPT ![activeObject].attr = v]
    /\ lastSaves' = <<>>
    /\ Op("property", activeObject) /\ Quiet /\ rt' = NoRt
    /\ UNCHANGED <<canvas, activeObject, nextObjectId, history, currentIndex,
                   isInternalChange, replays, captureIds, nCaptures>>
    /\ UNCHANGED storeVars

\* a click selects object k: selection:created / selection:updated
SelectObject(k) ==
    /\ canvas
    /\ k \in 1..Len(scene)
    /\ k # activeObject
    /\ activeObject' = k
    /\ lastSaves' = <<>>
    /\ Op("select", k) /\ Quiet /\ rt' = NoRt
    /\ UNCHANGED <<canvas, scene, nextObjectId, history, currentIndex,
                   isInternalChange, replays, captureIds, nCaptures, turns>>
    /\ UNCHANGED storeVars

\* ---- useHistory.undo / redo ------------------------------------------------

\* a variant of the undo guard that lets position 0 through: currentIndex < 0
UndoReturnsBelowZero == currentIndex < 0 \/ ~canvas

\* the early return of undo()
UndoReturns == currentIndex <= 0 \/ ~canvas

\* the early return of redo()
RedoReturns == currentIndex >= Len(history) - 1 \/ ~canvas

\* the flags the hook returns
canUndo == currentIndex > 0
canRedo == currentIndex < Len(history) - 1

\* isInternalChange.current = true; canvas.loadFromJSON(JSON.parse(json), f);
\* setCurrentIndex(target).  history[target] is undefined when target is past
\* the end of the list: JSON.parse then throws, after the flag was set.
Navigate(target, kind, noop) ==
    IF noop
    THEN /\ UNCHANGED <<history, currentIndex, isInternalChange, replays>>
         /\ Quiet /\ rt' = IF kind = "redo" /\ rt.phase = 2
                           THEN [rt EXCEPT !.phase = 4] ELSE NoRt
    ELSE IF target + 1 \notin DOMAIN history
    THEN /\ isInternalChange' = TRUE
         /\ thrown' = TRUE
         /\ failFrom' = currentIndex
         /\ rt' = NoRt
         /\ UNCHANGED <<history, currentIndex, replays>>
    ELSE /\ Len(replays) < MaxReplays
         /\ isInternalChange' = TRUE
         /\ replays' = Append(replays, [json |-> history[target + 1], revived |-> 0,
                                        from |-> currentIndex])
         /\ currentIndex' = target
         /\ Quiet
         /\ rt' = IF replays # <<>> THEN NoRt
                  ELSE IF kind = "undo"
                       THEN [phase |-> 1, json |-> toJSON(scene), index |-> currentIndex]
                       ELSE IF rt.phase = 2 THEN [rt EXCEPT !.phase = 3] ELSE NoRt
         /\ UNCHANGED history

\* Ctrl+Z
UndoTurn ==
    /\ Navigate(currentIndex - 1, "undo", UndoReturns)
    /\ lastSaves' = <<>>
    /\ Op("undo", 0)
    /\ UNCHANGED <<canvas, scene, activeObject, nextObjectId, captureIds, nCaptures>>
    /\ UNCHANGED storeVars

\* Ctrl+Y
RedoTurn ==
    /\ Navigate(currentIndex + 1, "redo", RedoReturns)
    /\ lastSaves' = <<>>
    /\ Op("redo", 0)
    /\ UNCHANGED <<canvas, scene, activeObject, nextObjectId, captureIds, nCaptures>>
    /\ UNCHANGED storeVars

\* ---- canvas.loadFromJSON in flight -----------------------------------------

\* one object of the snapshot has been rebuilt: the reviver runs
ReplayRevive(r) ==
    /\ r \in DOMAIN replays
    /\ replays[r].revived < Len(replays[r].json)
    /\ replays' = [replays EXCEPT ![r].revived = @ + 1]
    /\ isInternalChange' = FALSE
    /\ lastSaves' = <<>>
    /\ Op("revive", r) /\ Quiet
    /\ UNCHANGED <<canvas, scene, activeObject, nextObjectId, history, currentIndex,
                   captureIds, nCaptures, rt, turns>>
    /\ UNCHANGED storeVars

\* the scenes seen by the object:removed handlers of canvas.clear()
ClearScenes(sc) == [j \in 1..Len(sc) |-> SubSeq(sc, j + 1, Len(sc))]

\* the scenes seen by the object:added handlers of canvas.add(...objects)
AddScenes(objs) == [j \in 1..Len(objs) |-> objs]

\* all objects are rebuilt: clear(), add(...objects); every event runs
\* handleHistorySave
ReplayApply(r) ==
    /\ r \in DOMAIN replays
    /\ replays[r].revived = Len(replays[r].json)
    /\ LET objs == enlivenObjects(replays[r].json)
           scs == ClearScenes(scene) \o AddScenes(objs)
       IN /\ Commit(SaveAll(Hook, canvas, currentIndex, isInternalChange, scs, TRUE))
          /\ pending' = pending \o SaveCurrentPageData(scs)
          /\ scene' = objs
    /\ activeObject' = 0
    /\ replays' = RemoveAt(replays, r)
    /\ rt' = IF rt.phase \in {1, 3} THEN [rt EXCEPT !.phase = @ + 1] ELSE NoRt
    /\ Op("apply", r) /\ Quiet
    /\ UNCHANGED <<canvas, nextObjectId, isInternalChange, turns>>
    /\ UNCHANGED <<pages, activePageId, nextPageId, canvasRefs, pageData, switches>>

\* rebuilding an object fails: the promise of loadFromJSON rejects
ReplayFail(r) ==
    /\ r \in DOMAIN replays
    /\ replays[r].revived < Len(replays[r].json)
    /\ replays' = RemoveAt(replays, r)
    /\ failFrom' = replays[r].from
    /\ thrown' = FALSE
    /\ lastSaves' = <<>>
    /\ rt' = NoRt
    /\ Op("replayFail", r)
    /\ UNCHANGED <<canvas, scene, activeObject, nextObjectId, history, currentIndex,
                   isInternalChange, captureIds, nCaptures, turns>>
    /\ UNCHANGED storeVars

\* ---- useDesignStore: pages -------------------------------------------------

HistQuiet == lastSaves' = <<>> /\ Quiet /\ rt' = NoRt

\* addPage(config)
AddPageTurn ==
    /\ pages' = Append(pages, nextPageId)
    /\ activePageId' = nextPageId
    /\ nextPageId' = nextPageId + 1
    /\ Op("addPage", nextPageId) /\ HistQuiet
    /\ UNCHANGED <<canvas, scene, activeObject, nextObjectId, history, currentIndex,
                   isInternalChange, replays, captureIds, nCaptures, turns>>
    /\ UNCHANGED <<canvasRefs, pageData, pending, switches>>

\* a variant of the filter with the test inverted: p.id === pageId
FilterOutInverted(ps, pageId) == SelectSeq(ps, LAMBDA q : q = pageId)

\* design.pages.filter(p => p.id !== pageId)
FilterOut(ps, pageId) == SelectSeq(ps, LAMBDA q : q # pageId)

\* a variant of the reassignment that picks the last remaining page
NextActiveLast(ps, pageId) == IF activePageId = pageId THEN ps[Len(ps)] ELSE activePageId

\* the new activePageId chosen by deletePage
NextActive(ps, pageId) == IF activePageId = pageId THEN ps[1] ELSE activePageId

\* deletePage(pageId): the part before the first await; deletePageData is
\* issued once saveDesign has completed
DeletePage(pageId) ==
    /\ pageId \in 1..nextPageId - 1
    /\ LET ps == FilterOut(pages, pageId)
       IN IF Len(ps) = 0
          THEN UNCHANGED <<pages, activePageId, pending>>
          ELSE /\ Len(pending) < MaxPending
               /\ pages' = ps
               /\ activePageId' = NextActive(ps, pageId)
               /\ pending' = Append(pending,
                    [op |-> "saveDesign", page |-> pageId, json |-> NoData,
                     then |-> "deletePageData"])
    /\ Op("deletePage", pageId) /\ HistQuiet
    /\ UNCHANGED <<canvas, scene, activeObject, nextObjectId, history, currentIndex,
                   isInternalChange, replays, captureIds, nCaptures, turns>>
    /\ UNCHANGED <<nextPageId, canvasRefs, pageData, switches>>

\* a variant of setActivePage that writes the scene under the target's key
SetActivePageTargetKey(pageId) ==
    /\ pageId \in 1..nextPageId - 1
    /\ IF activePageId # 0 /\ activePageId \in canvasRefs
       THEN /\ Len(pending) < MaxPending
            /\ pending' = Append(pending,
                 [op |-> "savePageData", page |-> pageId,
                  json |-> toJSON(scene), then |-> "resume"])
            /\ switches' = Append(switches,
                 [pages |-> pages, layers |-> layers,
                  activeLayerId |-> activeLayerId, target |-> pageId])
            /\ UNCHANGED <<pages, activePageId>>
       ELSE /\ activePageId' = pageId
            /\ UNCHANGED <<pages, pending, switches>>
    /\ Op("setActivePage", pageId) /\ HistQuiet
    /\ UNCHANGED <<canvas, scene, activeObject, nextObjectId, history, currentIndex,
                   isInternalChange, replays, captureIds, nCaptures, turns>>
    /\ UNCHANGED <<nextPageId, canvasRefs, pageData>>

\* setActivePage(pageId) up to its first await: with a canvas registered for
\* the current page it issues savePageData and suspends, holding the design it
\* read (its pages with their layers); otherwise it sets the pointer at once
SetActivePage(pageId) ==
    /\ pageId \in 1..nextPageId - 1
    /\ IF activePageId # 0 /\ activePageId \in canvasRefs
       THEN /\ Len(pending) < MaxPending
            /\ pending' = Append(pending,
                 [op |-> "savePageData", page |-> activePageId,
                  json |-> toJSON(scene), then |-> "resume"])
            /\ switches' = Append(switches,
                 [pages |-> pages, layers |-> layers,
                  activeLayerId |-> activeLayerId, target |-> pageId])
            /\ UNCHANGED <<pages, activePageId>>
       ELSE /\ activePageId' = pageId
            /\ UNCHANGED <<pages, pending, switches>>
    /\ Op("setActivePage", pageId) /\ HistQuiet
    /\ UNCHANGED <<canvas, scene, activeObject, nextObjectId, history, currentIndex,
                   isInternalChange, replays, captureIds, nCaptures, turns>>
    /\ UNCHANGED <<nextPageId, canvasRefs, pageData>>

\* the oldest persistence request completes and the code awaiting it goes on:
\* deletePage issues deletePageData, setActivePage writes the design it read
\* before the await, with the new activePageId
PersistDone ==
    /\ pending # <<>>
    /\ LET req == Head(pending)
       IN /\ pageData' = IF req.op = "savePageData"
                         THEN [pageData EXCEPT ![req.page] = req.json]
                         ELSE IF req.op = "deletePageData"
                         THEN [pageData EXCEPT ![req.page] = NoData]
                         ELSE pageData
          /\ pending' = IF req.then = "deletePageData"
                        THEN Append(Tail(pending),
                               [op |-> "deletePageData", page |-> req.page,
                                json |-> NoData, then |-> "none"])
                        ELSE Tail(pending)
          /\ IF req.then = "resume"
             THEN /\ pages' = Head(switches).pages
                  /\ layers' = Head(switches).layers
                  /\ activeLayerId' = Head(switches).activeLayerId
                  /\ activePageId' = Head(switches).target
                  /\ switches' = Tail(switches)
             ELSE UNCHANGED <<pages, layers, activeLayerId, activePageId, switches>>
          /\ Op("persist", req.page)
    /\ HistQuiet
    /\ UNCHANGED <<canvas, scene, activeObject, nextObjectId, history, currentIndex,
                   isInternalChange, replays, captureIds, nCaptures, turns>>
    /\ UNCHANGED <<nextPageId, canvasRefs>>

\* The oldest persistence request fails: its promise rejects.  No store
\* action and no caller has a try/catch or a rejection handler around these
\* awaits, so the action awaiting it (deletePage, setActivePage,
\* saveCurrentPageData) stops there and its own promise rejects unhandled.
PersistFail ==
    /\ pending # <<>>
    /\ Head(pending).op # "getPageData"
    /\ pending' = Tail(pending)
    /\ switches' = IF Head(pending).then = "resume" THEN Tail(switches) ELSE switches
    /\ Op("persistFail", Head(pending).page)
    /\ thrown' = TRUE /\ failFrom' = -1
    /\ lastSaves' = <<>> /\ rt' = NoRt
    /\ UNCHANGED <<canvas, scene, activeObject, nextObjectId, history, currentIndex,
                   isInternalChange, replays, captureIds, nCaptures, turns>>
    /\ UNCHANGED <<pages, activePageId, nextPageId, canvasRefs, pageData>>

\* ---- useDesignStore: layers ------------------------------------------------

\* the attributes a scene object is created with; lock stands for
\* lockMovementX, lockMovementY, lockRotation, lockScalingX and lockScalingY,
\* which are only ever set together
DefaultFlags == [visible |-> TRUE, selectable |-> TRUE, evented |-> TRUE,
                 lock |-> FALSE]

\* the layer handleAddItem passes to addLayer, with its generated id
NewLayer(obj) == [id |-> nextLayerId, visible |-> TRUE, locked |-> FALSE,
                  obj |-> obj]

\* updatePage(design.pages, pageId, f): only a page of the design is changed
UpdatePage(f, pageId, v) == IF \E k \in DOMAIN pages : pages[k] = pageId
                            THEN [f EXCEPT ![pageId] = v] ELSE f

\* addLayer(pageId, layer)
AddLayer(pageId, obj) ==
    /\ layers' = UpdatePage(layers, pageId, Append(layers[pageId], NewLayer(obj)))
    /\ nextLayerId' = nextLayerId + 1

\* handleAddItem after canvas.add: the new object's attributes and its layer
AddItemLayer ==
    /\ flags' = Append(flags, DefaultFlags)
    /\ AddLayer(activePageId, nextObjectId)

\* design.pages.find(p => p.id === pageId) finds a page
PageExists(pageId) == \E k \in DOMAIN pages : pages[k] = pageId

\* index of the layer with this id in the page's list, 0 when find() fails
LayerIndex(pageId, layerId) ==
    IF \E k \in DOMAIN layers[pageId] : layers[pageId][k].id = layerId
    THEN CHOOSE k \in DOMAIN layers[pageId] : layers[pageId][k].id = layerId
    ELSE 0

\* canvasRefs.get(pageId) and canvas.getObjects().find(obj => obj.id === id):
\* index of the object in the scene, 0 when there is no canvas or no object
ObjIndex(pageId, obj) ==
    IF pageId \in canvasRefs /\ obj # 0 /\ \E k \in DOMAIN scene : scene[k].id = obj
    THEN CHOOSE k \in DOMAIN scene : scene[k].id = obj
    ELSE 0

\* what a layer action leaves alone in the hook and in the store
LayerFrame ==
    /\ HistQuiet
    /\ UNCHANGED <<canvas, nextObjectId, history, currentIndex, isInternalChange,
                   replays, captureIds, nCaptures>>
    /\ UNCHANGED <<storeVars, loadVars, nextLayerId>>

\* deleteLayer(pageId, layerId)
DeleteLayer(pageId, layerId) ==
    /\ layers' = UpdatePage(layers, pageId,
                    SelectSeq(layers[pageId], LAMBDA l : l.id # layerId))
    /\ activeLayerId' = UpdatePage(activeLayerId, pageId,
                    IF activeLayerId[pageId] = layerId THEN 0 ELSE activeLayerId[pageId])
    /\ lastCalls' = <<>> /\ vt' = NoVt
    /\ Op("deleteLayer", layerId) /\ LayerFrame
    /\ UNCHANGED <<scene, activeObject, flags>>

\* updateLayer(pageId, layerId, {visible: v})
UpdateLayer(pageId, layerId, v) ==
    /\ layers' = UpdatePage(layers, pageId,
                    [k \in DOMAIN layers[pageId] |->
                        IF layers[pageId][k].id = layerId
                        THEN [layers[pageId][k] EXCEPT !.visible = v]
                        ELSE layers[pageId][k]])
    /\ lastCalls' = <<>> /\ vt' = NoVt
    /\ Op("updateLayer", layerId) /\ LayerFrame
    /\ UNCHANGED <<scene, activeObject, flags, activeLayerId>>

\* a variant of setActiveLayer that selects the object without comparing it
\* with the canvas's active object
SetActiveLayerAlways(pageId, layerId) ==
    /\ activeLayerId' = UpdatePage(activeLayerId, pageId, layerId)
    /\ LET k == IF PageExists(pageId) THEN LayerIndex(pageId, layerId) ELSE 0
           o == IF k = 0 THEN 0 ELSE ObjIndex(pageId, layers[pageId][k].obj)
       IN IF layerId # 0 /\ o # 0
          THEN /\ activeObject' = o
               /\ lastCalls' = <<[fn |-> "setActiveObject", obj |-> scene[o].id,
                                  val |-> TRUE]>>
          ELSE /\ UNCHANGED activeObject
               /\ lastCalls' = <<>>
    /\ vt' = NoVt
    /\ Op("setActiveLayer", [pageId |-> pageId, layerId |-> layerId]) /\ LayerFrame
    /\ UNCHANGED <<scene, flags, layers>>

\* setActiveLayer(pageId, layerId | null), 0 standing for null: the pointer
\* is set, then the object of the layer is selected on the canvas unless it
\* is the active object already
SetActiveLayer(pageId, layerId) ==
    /\ activeLayerId' = UpdatePage(activeLayerId, pageId, layerId)
    /\ LET k == IF PageExists(pageId) THEN LayerIndex(pageId, layerId) ELSE 0
           o == IF k = 0 THEN 0 ELSE ObjIndex(pageId, layers[pageId][k].obj)
       IN IF layerId # 0 /\ o # 0 /\ o # activeObject
          THEN /\ activeObject' = o
               /\ lastCalls' = <<[fn |-> "setActiveObject", obj |-> scene[o].id,
                                  val |-> TRUE]>>
          ELSE /\ UNCHANGED activeObject
               /\ lastCalls' = <<>>
    /\ vt' = NoVt
    /\ Op("setActiveLayer", [pageId |-> pageId, layerId |-> layerId]) /\ LayerFrame
    /\ UNCHANGED <<scene, flags, layers>>

\* the layer an action of the store works on: 0 when the page or the layer is
\* not found or the layer has no fabricObjectId
TargetLayer(pageId, layerId) ==
    IF ~PageExists(pageId) THEN 0
    ELSE LET k == LayerIndex(pageId, layerId)
         IN IF k = 0 \/ layers[pageId][k].obj = 0 THEN 0 ELSE k

\* toggleLayerVisibility(pageId, layerId)
ToggleLayerVisibility(pageId, layerId) ==
    LET k == TargetLayer(pageId, layerId)
    IN /\ IF k = 0
          THEN /\ UNCHANGED <<layers, flags>>
               /\ lastCalls' = <<>> /\ vt' = NoVt
          ELSE LET layer == layers[pageId][k]
                   newVisible == ~layer.visible
                   o == ObjIndex(pageId, layer.obj)
               IN /\ layers' = [layers EXCEPT ![pageId][k].visible = newVisible]
                  /\ IF o = 0
                     THEN /\ UNCHANGED flags
                          /\ lastCalls' = <<>> /\ vt' = NoVt
                     ELSE /\ flags' = [flags EXCEPT ![layer.obj] =
                                [@ EXCEPT !.visible = newVisible,
                                          !.selectable = newVisible,
                                          !.evented = newVisible]]
                          /\ lastCalls' = <<[fn |-> "visible", obj |-> layer.obj,
                                             val |-> newVisible]>>
                          /\ vt' = IF vt.phase = 1 /\ vt.layer = layerId
                                   THEN [vt EXCEPT !.phase = 2, !.second = newVisible]
                                   ELSE [phase |-> 1, layer |-> layerId,
                                         visible |-> layer.visible,
                                         objVisible |-> flags[layer.obj].visible,
                                         first |-> newVisible, second |-> newVisible]
       /\ Op("toggleLayerVisibility", layerId) /\ LayerFrame
       /\ UNCHANGED <<scene, activeObject, activeLayerId>>

\* toggleLayerLock(pageId, layerId)
ToggleLayerLock(pageId, layerId) ==
    LET k == TargetLayer(pageId, layerId)
    IN /\ IF k = 0
          THEN /\ UNCHANGED <<layers, flags>>
               /\ lastCalls' = <<>>
          ELSE LET layer == layers[pageId][k]
                   newLocked == ~layer.locked
                   o == ObjIndex(pageId, layer.obj)
               IN /\ layers' = [layers EXCEPT ![pageId][k].locked = newLocked]
                  /\ IF o = 0
                     THEN /\ UNCHANGED flags
                          /\ lastCalls' = <<>>
                     ELSE /\ flags' = [flags EXCEPT ![layer.obj] =
                                [@ EXCEPT !.selectable = ~newLocked,
                                          !.evented = ~newLocked,
                                          !.lock = newLocked]]
                          /\ lastCalls' = <<[fn |-> "lock", obj |-> layer.obj,
                                             val |-> newLocked]>>
       /\ vt' = NoVt
       /\ Op("toggleLayerLock", layerId) /\ LayerFrame
       /\ UNCHANGED <<scene, activeObject, activeLayerId>>

\* Array.prototype.splice: the position a start argument stands for in an
\* array of length len (a negative start counts from the end, a start past
\* the end is the end)
SpliceStart(len, start) ==
    IF start < 0 THEN (IF len + start < 0 THEN 0 ELSE len + start)
    ELSE Min(start, len)

\* arr.splice(start, 1) with start a 0-based index of arr
SpliceOut(arr, start) ==
    SubSeq(arr, 1, start) \o SubSeq(arr, start + 2, Len(arr))

\* arr.splice(start, 0, x)
SpliceIn(arr, start, x) ==
    LET n == SpliceStart(Len(arr), start)
    IN SubSeq(arr, 1, n) \o <<x>> \o SubSeq(arr, n + 1, Len(arr))

\* a variant of moveObjectTo that counts the index from the top of the stack
MoveObjectFromTop(sc, o, index) ==
    IF o = Len(sc) - index THEN sc
    ELSE SpliceIn(SpliceOut(sc, o - 1), Len(sc) - 1 - index, sc[o])

\* canvas.moveObjectTo(object, index) for the object at position o of sc:
\* nothing moves when the object is at that index already
MoveObjectTo(sc, o, index) ==
    IF o = index + 1 THEN sc ELSE SpliceIn(SpliceOut(sc, o - 1), index, sc[o])

\* where the object at position a of sc is after MoveObjectTo(sc, o, index)
MovedIndex(sc, o, index, a) ==
    IF a = 0 \/ o = index + 1 THEN a
    ELSE LET n == SpliceStart(Len(sc) - 1, index)
             r == IF a < o THEN a ELSE a - 1
         IN IF a = o THEN n + 1 ELSE IF r <= n THEN r ELSE r + 1

\* reorderLayers(pageId, oldIndex, newIndex)
ReorderLayers(pageId, oldIndex, newIndex) ==
    LET found == /\ PageExists(pageId)
                 /\ oldIndex + 1 \in DOMAIN layers[pageId]
                 /\ layers[pageId][oldIndex + 1].obj # 0
    IN /\ IF ~found
          THEN /\ UNCHANGED <<layers, scene, activeObject>>
               /\ lastCalls' = <<>>
          ELSE LET movedLayer == layers[pageId][oldIndex + 1]
                   o == ObjIndex(pageId, movedLayer.obj)
               IN /\ layers' = UpdatePage(layers, pageId,
                        SpliceIn(SpliceOut(layers[pageId], oldIndex), newIndex,
                                 movedLayer))
                  /\ IF o = 0
                     THEN /\ UNCHANGED <<scene, activeObject>>
                          /\ lastCalls' = <<>>
                     ELSE /\ scene' = MoveObjectTo(scene, o, newIndex)
                          /\ activeObject' = MovedIndex(scene, o, newIndex, activeObject)
                          /\ lastCalls' = <<[fn |-> "moveObjectTo",
                                             obj |-> movedLayer.obj,
                                             val |-> newIndex]>>
       /\ vt' = NoVt
       /\ Op("reorderLayers", [oldIndex |-> oldIndex, newIndex |-> newIndex])
       /\ LayerFrame
       /\ UNCHANGED <<flags, activeLayerId>>

\* canvas.remove(object) for the object at position o: object:removed runs
\* handleHistorySave, and an active object that is removed is deselected
RemoveObject(o) ==
    /\ LET sc == RemoveAt(scene, o)
       IN /\ scene' = sc
          /\ HandleHistorySave(<<sc>>)
    /\ activeObject' = IF activeObject = o THEN 0
                       ELSE IF activeObject > o THEN activeObject - 1
                       ELSE activeObject

\* deleteLayer(pageId, layerId) paired by its caller with the removal of the
\* layer's object from the canvas, in one turn
DeleteLayerWithObject(pageId, layerId) ==
    /\ PageExists(pageId)
    /\ LayerIndex(pageId, layerId) # 0
    /\ LET layer == layers[pageId][LayerIndex(pageId, layerId)]
       IN /\ ObjIndex(pageId, layer.obj) # 0
          /\ RemoveObject(ObjIndex(pageId, layer.obj))
    /\ layers' = UpdatePage(layers, pageId,
                    SelectSeq(layers[pageId], LAMBDA l : l.id # layerId))
    /\ activeLayerId' = UpdatePage(activeLayerId, pageId,
                    IF activeLayerId[pageId] = layerId THEN 0 ELSE activeLayerId[pageId])
    /\ lastCalls' = <<>> /\ vt' = NoVt
    /\ Op("deleteLayer", layerId) /\ Quiet /\ rt' = NoRt
    /\ UNCHANGED <<canvas, nextObjectId, isInternalChange, replays>>
    /\ UNCHANGED <<pages, activePageId, nextPageId, canvasRefs, pageData, switches>>
    /\ UNCHANGED <<loadVars, nextLayerId, flags>>

\* ---- FabricCanvas load effect / useDesignStore.loadPageData ---------------

\* The effect of FabricCanvas that depends on [canvasRef.current,
\* design.activePageId]: its cleanup cancels a frame request that has not
\* fired yet, then a new frame request is made for the active page.
LoadEffect(cv, active) ==
    LET kept == SelectSeq(loads, LAMBDA l : l.phase # "raf")
    IN IF cv /\ active # 0
       THEN Append(kept, [page |-> active, phase |-> "raf", json |-> NoData])
       ELSE kept

\* the re-render after an action runs the effect when a dependency changed
RunEffect ==
    loads' = IF canvas' # canvas \/ activePageId' # activePageId
             THEN LoadEffect(canvas', activePageId') ELSE loads

\* ghost: a savePageData issued for page p is a new operation on p
Touch(ps) == delDone' = delDone \ ps

\* the page saveCurrentPageData() writes, if any
SavedPage == IF activePageId # 0 /\ activePageId \in canvasRefs
             THEN {activePageId} ELSE {}

\* requestAnimationFrame fires: setTimeout(..., 50) is armed
Frame(l) ==
    /\ l \in DOMAIN loads
    /\ loads[l].phase = "raf"
    /\ loads' = [loads EXCEPT ![l].phase = "timer"]
    /\ Op("frame", loads[l].page) /\ HistQuiet
    /\ UNCHANGED <<canvas, scene, activeObject, nextObjectId, history, currentIndex,
                   isInternalChange, replays, captureIds, nCaptures, turns>>
    /\ UNCHANGED <<storeVars, sessions, nSwitches, delDone, layerVars>>

\* the timer fires: loadPageData(pageId) up to await getPageData.  The canvas
\* is the one registered for pageId or else the first entry of canvasRefs.
LoadStart(l) ==
    /\ l \in DOMAIN loads
    /\ loads[l].phase = "timer"
    /\ IF canvasRefs = {}
       THEN /\ loads' = RemoveAt(loads, l)
            /\ UNCHANGED pending
       ELSE /\ loads' = [loads EXCEPT ![l].phase = "read"]
            /\ pending' = Append(pending,
                 [op |-> "getPageData", page |-> loads[l].page, json |-> NoData,
                  then |-> "none"])
    /\ Op("loadPageData", loads[l].page) /\ HistQuiet
    /\ UNCHANGED <<canvas, scene, activeObject, nextObjectId, history, currentIndex,
                   isInternalChange, replays, captureIds, nCaptures, turns>>
    /\ UNCHANGED <<pages, activePageId, nextPageId, canvasRefs, pageData, switches>>
    /\ UNCHANGED <<sessions, nSwitches, delDone, layerVars>>

\* index of the load whose getPageData is the oldest one in flight
FirstRead == CHOOSE l \in DOMAIN loads :
                 /\ loads[l].phase = "read"
                 /\ \A j \in 1..l - 1 : loads[j].phase # "read"

\* getPageData resolves: with a snapshot loadPageData calls
\* canvas.loadFromJSON(JSON.parse(canvasJSON)), without one it returns
ReadDone ==
    LET l == FirstRead
        json == pageData[loads[l].page]
    IN loads' = IF json = NoData THEN RemoveAt(loads, l)
                ELSE [loads EXCEPT ![l] = [page |-> @.page, phase |-> "apply",
                                           json |-> json]]

\* loadFromJSON resolves: the scene is replaced, and the object:removed and
\* object:added events run handleHistorySave
LoadApply(l) ==
    /\ l \in DOMAIN loads
    /\ loads[l].phase = "apply"
    /\ LET objs == enlivenObjects(loads[l].json)
           scs == ClearScenes(scene) \o AddScenes(objs)
       IN /\ HandleHistorySave(scs)
          /\ scene' = objs
          /\ Touch(IF scs = <<>> THEN {} ELSE SavedPage)
    /\ activeObject' = 0
    /\ loads' = RemoveAt(loads, l)
    /\ Op("loadApply", loads[l].page) /\ Quiet /\ rt' = NoRt
    /\ UNCHANGED <<canvas, nextObjectId, isInternalChange, replays, turns>>
    /\ UNCHANGED <<pages, activePageId, nextPageId, canvasRefs, pageData, switches>>
    /\ UNCHANGED <<sessions, nSwitches, layerVars>>

\* JSON.parse or loadFromJSON fails: the catch block calls canvas.clear(),
\* whose object:removed events run handleHistorySave
LoadFail(l) ==
    /\ l \in DOMAIN loads
    /\ loads[l].phase = "apply"
    /\ LET scs == ClearScenes(scene)
       IN /\ HandleHistorySave(scs)
          /\ Touch(IF scs = <<>> THEN {} ELSE SavedPage)
    /\ scene' = <<>>
    /\ activeObject' = 0
    /\ loads' = RemoveAt(loads, l)
    /\ Op("loadFail", loads[l].page) /\ Quiet /\ rt' = NoRt
    /\ UNCHANGED <<canvas, nextObjectId, isInternalChange, replays, turns>>
    /\ UNCHANGED <<pages, activePageId, nextPageId, canvasRefs, pageData, switches>>
    /\ UNCHANGED <<sessions, nSwitches, layerVars>>

\* The browser reloads the editor while nothing is in flight.  The
\* beforeunload handler calls saveCurrentPageData(), whose write may or may
\* not be carried out; the design comes back from the persisted store, the
\* canvas, canvasRefs, the history and the timers do not.
Reload ==
    /\ canvas
    /\ pending = <<>> /\ switches = <<>> /\ replays = <<>>
    /\ \E saved \in BOOLEAN :
         /\ saved => SavedPage # {}
         /\ pageData' = IF saved
                        THEN [pageData EXCEPT ![activePageId] = toJSON(scene)]
                        ELSE pageData
         /\ Touch(IF saved THEN SavedPage ELSE {})
    /\ canvas' = FALSE
    /\ canvasRefs' = {}
    /\ scene' = <<>>
    /\ activeObject' = 0
    /\ history' = <<>>
    /\ currentIndex' = -1
    /\ isInternalChange' = FALSE
    /\ captureIds' = <<>>
    /\ nCaptures' = 0
    /\ loads' = <<>>
    /\ sessions' = sessions + 1
    /\ Op("reload", 0) /\ HistQuiet
    /\ UNCHANGED <<nextObjectId, replays, turns>>
    /\ UNCHANGED <<pages, activePageId, nextPageId, pending, switches>>
    /\ UNCHANGED <<nSwitches, layerVars>>

\* ---- specifications --------------------------------------------------------

\* what the history and page specifications leave alone
NoLoads == UNCHANGED loadVars
NoLayers == UNCHANGED layerVars
\* the part of the layer state a resumed setActivePage does not write
NoObjectCalls == UNCHANGED <<nextLayerId, flags, lastCalls, vt>>
AddsLayer == AddItemLayer /\ UNCHANGED <<activeLayerId, lastCalls, vt>>

AddPage == nextPageId <= HistPages /\ AddPageTurn /\ NoLoads /\ NoLayers
AddObject == turns < MaxTurns /\ AddObjectTurn /\ UserTurn /\ NoLoads /\ AddsLayer
DeleteKey == turns < MaxTurns /\ DeleteKeyTurn /\ UserTurn /\ NoLoads /\ NoLayers
Modify ==
    /\ turns < MaxTurns /\ UserTurn /\ NoLoads /\ NoLayers
    /\ \E k \in 1..MaxObjects, v \in 0..1 : ModifyTurn(k, v)
Property ==
    /\ turns < MaxTurns /\ UserTurn /\ NoLoads /\ NoLayers
    /\ \E v \in 0..1 : PropertyTurn(v)
Select == NoLoads /\ NoLayers /\ \E k \in 1..MaxObjects : SelectObject(k)
Undo == turns < MaxTurns /\ UndoTurn /\ UserTurn /\ NoLoads /\ NoLayers
Redo == turns < MaxTurns /\ RedoTurn /\ UserTurn /\ NoLoads /\ NoLayers
Revive == NoLoads /\ NoLayers /\ \E r \in 1..MaxReplays : ReplayRevive(r)
Apply == NoLoads /\ NoLayers /\ \E r \in 1..MaxReplays : ReplayApply(r)
Fail == NoLoads /\ NoLayers /\ \E r \in 1..MaxReplays : ReplayFail(r)
\* the canvas mounts in a session whose delayed page load finds no snapshot
Mount == CanvasReady /\ NoLoads /\ NoLayers
Persist == PersistDone /\ NoLoads /\ NoObjectCalls

Next ==
    \/ AddPage
    \/ Mount
    \/ AddObject
    \/ DeleteKey
    \/ Modify
    \/ Property
    \/ Select
    \/ Undo
    \/ Redo
    \/ Revive
    \/ Apply
    \/ Fail
    \/ Persist

Spec == Init /\ [][Next]_vars

\* the cap run: one object at a time is edited, persistence does not complete
CapAdd ==
    /\ turns < CapTurns /\ nextObjectId <= MaxAdds /\ AddObjectTurn /\ UserTurn
    /\ NoLoads /\ AddsLayer
CapDelete == turns < CapTurns /\ DeleteKeyTurn /\ UserTurn /\ NoLoads /\ NoLayers
CapModify ==
    /\ turns < CapTurns
    /\ activeObject # 0
    /\ ModifyTurn(activeObject, 1 - scene[activeObject].attr)
    /\ UserTurn /\ NoLoads /\ NoLayers

NextCap ==
    \/ AddPage
    \/ Mount
    \/ CapAdd
    \/ CapDelete
    \/ CapModify

SpecCap == Init /\ [][NextCap]_vars

\* the page operations of the store
StoreAddPage == nextPageId <= MaxPages /\ AddPageTurn /\ NoLoads /\ NoLayers
StoreDeletePage ==
    /\ NoLoads /\ NoLayers
    /\ \E p \in 1..MaxPages : DeletePage(p) /\ Len(pending') <= StorePending
StoreSetActivePage ==
    /\ NoLoads /\ NoLayers
    /\ \E p \in 1..MaxPages : SetActivePage(p) /\ Len(pending') <= StorePending

NextStore ==
    \/ StoreAddPage
    \/ Mount
    \/ StoreDeletePage
    \/ StoreSetActivePage
    \/ Persist

SpecStore == Init /\ [][NextStore]_vars

\* page switches, loads, edits and reloads: one or more sessions of the editor
LoadBound == Len(loads') <= MaxLoads
LoadAddPage ==
    /\ nextPageId <= LoadPages /\ AddPageTurn /\ RunEffect /\ LoadBound
    /\ UNCHANGED <<sessions, nSwitches, delDone>> /\ NoLayers
LoadMount ==
    /\ CanvasReady /\ RunEffect /\ LoadBound
    /\ UNCHANGED <<sessions, nSwitches, delDone>> /\ NoLayers
LoadAddObject ==
    /\ turns < LoadTurns /\ AddObjectTurn /\ UserTurn /\ AddsLayer
    /\ Touch(SavedPage) /\ UNCHANGED <<loads, sessions, nSwitches>>
LoadDeletePage ==
    /\ \E k \in DOMAIN pages :
         /\ DeletePage(pages[k])
         /\ delDone' = IF pages' # pages THEN delDone \ {pages[k]} ELSE delDone
    /\ RunEffect /\ LoadBound
    /\ UNCHANGED <<sessions, nSwitches>> /\ NoLayers
LoadSetActivePage ==
    /\ nSwitches < MaxSwitches
    /\ nSwitches' = nSwitches + 1
    /\ \E k \in DOMAIN pages : SetActivePage(pages[k])
    /\ Touch(IF pending' # pending THEN SavedPage ELSE {})
    /\ RunEffect /\ LoadBound
    /\ UNCHANGED sessions /\ NoLayers
LoadPersist ==
    /\ PersistDone
    /\ delDone' = IF Head(pending).op = "deletePageData"
                  THEN delDone \cup {Head(pending).page} ELSE delDone
    /\ IF Head(pending).op = "getPageData" THEN ReadDone ELSE RunEffect /\ LoadBound
    /\ UNCHANGED <<sessions, nSwitches>> /\ NoObjectCalls
LoadFrame == \E l \in 1..MaxLoads : Frame(l)
LoadRun == \E l \in 1..MaxLoads : LoadStart(l)
LoadApplies == \E l \in 1..MaxLoads : LoadApply(l)
LoadFails == \E l \in 1..MaxLoads : LoadFail(l)
ReloadPage == sessions < MaxReloads /\ Reload

NextLoad ==
    \/ LoadAddPage
    \/ LoadMount
    \/ LoadAddObject
    \/ LoadSetActivePage
    \/ LoadPersist
    \/ LoadFrame
    \/ LoadRun
    \/ LoadApplies
    \/ LoadFails
    \/ ReloadPage

SpecLoad == Init /\ [][NextLoad]_vars

\* page switches, page deletions and edits racing with persistence, within
\* the frame in which the load effect was scheduled
NextPersist ==
    \/ LoadAddPage
    \/ LoadMount
    \/ LoadAddObject
    \/ LoadDeletePage
    \/ LoadSetActivePage
    \/ LoadPersist

SpecPersist == Init /\ [][NextPersist]_vars

\* gestures on the canvas next to the other edits, undo and redo
Moving == NoLoads /\ NoLayers /\ \E k \in 1..MaxObjects, v \in 0..1 : ObjectMoving(k, v)

NextGesture ==
    \/ AddPage
    \/ Mount
    \/ AddObject
    \/ Moving
    \/ Modify
    \/ Undo
    \/ Redo
    \/ Revive
    \/ Apply
    \/ Fail
    \/ Persist

SpecGesture == Init /\ [][NextGesture]_vars

\* the layer panel: one page, its canvas mounted, items added from the
\* toolbar and the store's layer actions called with every page id the design
\* has and every layer id and index the bounds allow
LayerPages == 1..HistPages
LayerIds == 1..MaxLayers
LayerIndices == -1..MaxLayers

LayerBound == turns < LayerTurns /\ UserTurn
LayerAddItem ==
    /\ turns < LayerTurns /\ nextLayerId <= MaxLayers
    /\ AddObjectTurn /\ UserTurn /\ NoLoads
    /\ AddItemLayer /\ lastCalls' = <<>> /\ vt' = NoVt
    /\ UNCHANGED activeLayerId
LayerDeleteKey ==
    /\ turns < LayerTurns /\ DeleteKeyTurn /\ UserTurn /\ NoLoads
    /\ lastCalls' = <<>> /\ vt' = NoVt
    /\ UNCHANGED <<layers, activeLayerId, nextLayerId, flags>>
LayerDelete ==
    LayerBound /\ \E p \in LayerPages, l \in LayerIds : DeleteLayer(p, l)
LayerUpdate ==
    LayerBound /\ \E p \in LayerPages, l \in LayerIds, v \in BOOLEAN :
                      UpdateLayer(p, l, v)
LayerSetActive ==
    LayerBound /\ \E p \in LayerPages, l \in {0} \cup LayerIds : SetActiveLayer(p, l)
LayerToggleVisibility ==
    LayerBound /\ \E p \in LayerPages, l \in LayerIds : ToggleLayerVisibility(p, l)
LayerToggleLock ==
    LayerBound /\ \E p \in LayerPages, l \in LayerIds : ToggleLayerLock(p, l)
LayerReorder ==
    LayerBound /\ \E p \in LayerPages, i \in LayerIndices, j \in LayerIndices :
                      ReorderLayers(p, i, j)

NextLayer ==
    \/ AddPage
    \/ Mount
    \/ LayerAddItem
    \/ LayerDeleteKey
    \/ LayerDelete
    \/ LayerUpdate
    \/ LayerSetActive
    \/ LayerToggleVisibility
    \/ LayerToggleLock
    \/ LayerReorder

SpecLayer == Init /\ [][NextLayer]_vars

\* the two toggles of the layer panel on the layers of the items added
NextToggle ==
    \/ AddPage
    \/ Mount
    \/ LayerAddItem
    \/ LayerToggleVisibility
    \/ LayerToggleLock

SpecToggle == Init /\ [][NextToggle]_vars

\* one page whose layers and objects are created, removed and reordered in
\* pairs: items added from the toolbar, deleteLayer together with the removal
\* of the object, reorderLayers with both indices inside the list
OrderAddPage == nextPageId = 1 /\ AddPageTurn /\ NoLoads /\ NoLayers
OrderBound == turns < OrderTurns /\ UserTurn
OrderAddItem ==
    /\ nextLayerId <= OrderLayers
    /\ OrderBound /\ AddObjectTurn /\ NoLoads
    /\ AddItemLayer /\ lastCalls' = <<>> /\ vt' = NoVt
    /\ UNCHANGED activeLayerId
OrderDelete ==
    /\ OrderBound
    /\ \E p \in LayerPages, l \in 1..OrderLayers : DeleteLayerWithObject(p, l)
OrderReorder ==
    /\ OrderBound
    /\ \E p \in LayerPages, i \in 0..OrderLayers, j \in 0..OrderLayers :
          /\ PageExists(p)
          /\ i \in 0..(Len(layers[p]) - 1)
          /\ j \in 0..(Len(layers[p]) - 1)
          /\ ReorderLayers(p, i, j)

NextOrder ==
    \/ OrderAddPage
    \/ Mount
    \/ OrderAddItem
    \/ OrderDelete
    \/ OrderReorder

SpecOrder == Init /\ [][NextOrder]_vars

\* page switches, page deletions and edits whose persistence writes may fail
FailPersist == PersistFail /\ NoLoads /\ NoLayers

NextFail ==
    \/ LoadAddPage
    \/ LoadMount
    \/ LoadAddObject
    \/ LoadDeletePage
    \/ LoadSetActivePage
    \/ LoadPersist
    \/ FailPersist

SpecFail == Init /\ [][NextFail]_vars

\* ---- properties ------------------------------------------------------------

\* C1: once the history holds a snapshot, 0 <= position <= length - 1
C1_PositionInRange ==
    Len(history) >= 1 => (0 <= currentIndex /\ currentIndex <= Len(history) - 1)

\* C2: the history never exceeds the cap, and after more than cap captures it
\* holds exactly the most recent cap captures, oldest first
C2_RetainsMostRecent ==
    /\ Len(history) <= MAX_HISTORY_SIZE
    /\ nCaptures > MAX_HISTORY_SIZE =>
         captureIds = [k \in 1..MAX_HISTORY_SIZE |-> nCaptures - MAX_HISTORY_SIZE + k]

\* a capture that was made at a position with snapshots after it
NonTerminalCapture(s) == ~s.blocked /\ 0 <= s.prevI /\ s.prevI < Len(s.prevH) - 1

\* C3: a capture at a non-terminal position p keeps entries 0..p, drops the
\* entries after p, puts the new snapshot at p + 1 and moves the position to
\* p + 1, the last index
C3_BranchOverwrite ==
    \A k \in DOMAIN lastSaves :
        LET s == lastSaves[k]
        IN NonTerminalCapture(s) =>
            /\ Len(s.newH) = s.prevI + 2
            /\ \A j \in 1..s.prevI + 1 : s.newH[j] = s.prevH[j]
            /\ s.newH[s.prevI + 2] = s.json
            /\ s.newI = s.prevI + 1
            /\ s.newI = Len(s.newH) - 1

C3_Witness ==
    \E k \in DOMAIN lastSaves :
        /\ NonTerminalCapture(lastSaves[k])
        /\ lastSaves[k].prevI + 2 < Len(lastSaves[k].prevH)

\* C4: undo() followed at once by redo() gives back the scene and the
\* position that preceded the undo()
C4_RoundTrip ==
    rt.phase = 4 => (toJSON(scene) = rt.json /\ currentIndex = rt.index)

\* C5: undo() while canUndo is false and redo() while canRedo is false change
\* neither the history, the position, the replay guard nor the scene
C5_BoundaryNoOps ==
    [][((lastOp' = "undo" /\ ~canUndo) \/ (lastOp' = "redo" /\ ~canRedo))
        => UNCHANGED <<history, currentIndex, isInternalChange, scene, replays>>]_vars

C5_Witness ==
    /\ lastOp = "undo" /\ canvas /\ currentIndex = 0 /\ Len(history) >= 2
    /\ replays = <<>> /\ ~thrown

\* C6: a saveHistory() call made while a replay is in flight leaves the
\* history and the position as they were
C6_ReplayGuard ==
    \A k \in DOMAIN lastSaves :
        lastSaves[k].inReplay =>
            (lastSaves[k].newH = lastSaves[k].prevH /\ lastSaves[k].newI = lastSaves[k].prevI)

\* C7: when an undo()/redo() fails, no exception escapes, the position is the
\* one before the call and captures are not left switched off
C7_FailureSemantics ==
    failFrom # -1 =>
        /\ ~thrown
        /\ currentIndex = failFrom
        /\ replays = <<>> => ~isInternalChange

\* C8: after an add, a removal, a gesture or a property-panel edit made while
\* no replay is in flight, the last snapshot of the history is the new scene
C8_EditsCaptured ==
    (lastOp \in {"add", "delete", "modify", "property"} /\ replays = <<>>) =>
        /\ \E k \in DOMAIN lastSaves : ~lastSaves[k].blocked
        /\ Len(history) >= 1
        /\ history[Len(history)] = toJSON(scene)

C10_DeletePage ==
    [][(lastOp' = "deletePage" /\ Len(pages) >= 2) =>
         /\ \/ /\ \A k \in DOMAIN pages : pages[k] # lastArg'
               /\ pages' = pages
            \/ \E k \in DOMAIN pages :
                 /\ pages[k] = lastArg'
                 /\ pages' = SubSeq(pages, 1, k - 1) \o SubSeq(pages, k + 1, Len(pages))
         /\ activePageId' = IF activePageId = lastArg' THEN pages'[1] ELSE activePageId]_vars

C10_Witness ==
    /\ lastOp = "deletePage" /\ lastArg = 3
    /\ pages = <<1, 2>> /\ activePageId = 1

\* C11: once deletePage(P) has completed and no write for P that was issued
\* before that moment is still in flight, the snapshot store holds no record
\* for P
C11_DeleteDiscardsSnapshot ==
    \A p \in delDone :
        (\A k \in DOMAIN pending : pending[k].page = p => pending[k].op = "getPageData")
            => pageData[p] = NoData

\* C12: setActivePage(target) with a canvas registered for the outgoing page
\* issues the write of the serialized scene under the outgoing page's key,
\* and the active page has not changed when the write is issued
C12_SwitchSavesOutgoing ==
    [][(lastOp' = "setActivePage" /\ activePageId # 0 /\ activePageId \in canvasRefs)
        => /\ Len(pending') = Len(pending) + 1
           /\ SubSeq(pending', 1, Len(pending)) = pending
           /\ pending'[Len(pending')].op = "savePageData"
           /\ pending'[Len(pending')].page = activePageId
           /\ pending'[Len(pending')].json = toJSON(scene)
           /\ activePageId' = activePageId]_vars

C12_Witness ==
    /\ lastOp = "setActivePage" /\ pending # <<>>
    /\ pending[Len(pending)].then = "resume"
    /\ pending[Len(pending)].page # lastArg
    /\ pending[Len(pending)].json # <<>>

\* C13: loadPageData(pageId) changes a scene only when a canvas is registered
\* for pageId (and then it is that canvas)
C13_LoadOnlyOwnCanvas ==
    [][(lastOp' \in {"loadApply", "loadFail"} /\ lastArg' \notin canvasRefs)
        => scene' = scene]_vars

\* C14: a load whose page is no longer the active page when its snapshot is
\* ready does not apply the snapshot
C14_SupersededLoadDiscarded ==
    [][lastOp' = "loadApply" => lastArg' = activePageId]_vars

\* C15: when deserialization fails inside loadPageData the scene is what it
\* was before the load and no exception reaches the caller
C15_LoadFailureKeepsScene ==
    [][lastOp' = "loadFail" => (scene' = scene /\ ~thrown')]_vars


\* C16: on every page the active-layer pointer is undefined or the id of a
\* layer in that page's list
C16_ActiveLayerInList ==
    \A k \in DOMAIN pages :
        \/ activeLayerId[pages[k]] = 0
        \/ \E j \in DOMAIN layers[pages[k]] :
              layers[pages[k]][j].id = activeLayerId[pages[k]]

\* C17: reorderLayers with oldIndex or newIndex outside 0..length-1 is a
\* no-op: the layer order is unchanged and no z-order call reaches the scene
C17_ReorderOutOfRangeNoOp ==
    [][(/\ lastOp' = "reorderLayers"
        /\ \E k \in DOMAIN pages :
              \/ lastArg'.oldIndex \notin 0..(Len(layers[pages[k]]) - 1)
              \/ lastArg'.newIndex \notin 0..(Len(layers[pages[k]]) - 1))
       => (layers' = layers /\ scene' = scene /\ lastCalls' = <<>>)]_vars

\* C18: a layer whose visible flag is false has a Scene Object that is
\* neither selectable nor evented
C18_HiddenNotPickable ==
    \A k \in DOMAIN pages : \A j \in DOMAIN layers[pages[k]] :
        LET layer == layers[pages[k]][j]
        IN (ObjIndex(pages[k], layer.obj) # 0 /\ ~layer.visible)
              => (~flags[layer.obj].selectable /\ ~flags[layer.obj].evented)

\* C19: a layer whose locked flag is true has a Scene Object with every lock
\* attribute true and with selectable and evented false
C19_LockedStaysLocked ==
    \A k \in DOMAIN pages : \A j \in DOMAIN layers[pages[k]] :
        LET layer == layers[pages[k]][j]
        IN (ObjIndex(pages[k], layer.obj) # 0 /\ layer.locked)
              => /\ flags[layer.obj].lock
                 /\ ~flags[layer.obj].selectable
                 /\ ~flags[layer.obj].evented

\* C20: after two visibility toggles in a row on one layer whose Scene Object
\* is found both times, the layer's visible flag is what it was before the
\* first, the two calls on the object carried opposite values, and the
\* object's visible attribute is what it was before the first
C20_ToggleTwiceRestores ==
    vt.phase = 2 =>
        \E k \in DOMAIN pages : \E j \in DOMAIN layers[pages[k]] :
            LET layer == layers[pages[k]][j]
            IN /\ layer.id = vt.layer
               /\ layer.visible = vt.visible
               /\ vt.first # vt.second
               /\ flags[layer.obj].visible = vt.objVisible

\* C21: setActiveLayer calls setActiveObject only when the canvas's active
\* object is not the layer's object; called for the layer of the object that
\* is active already, it sets the pointer and makes no call on the canvas
C21_NoSelectionFeedback ==
    [][\A p \in DOMAIN layers : \A j \in DOMAIN layers[p] :
          LET layer == layers[p][j]
              isActive == activeObject # 0 /\ scene[activeObject].id = layer.obj
          IN (/\ lastOp' = "setActiveLayer"
              /\ lastArg' = [pageId |-> p, layerId |-> layer.id]
              /\ PageExists(p) /\ ObjIndex(p, layer.obj) # 0)
             => /\ lastCalls' # <<>> => ~isActive
                /\ isActive => /\ lastCalls' = <<>>
                               /\ activeObject' = activeObject
                               /\ activeLayerId'[p] = layer.id]_vars

C21_Witness ==
    /\ lastOp = "setActiveLayer" /\ lastCalls = <<>>
    /\ activeObject # 0
    /\ \E j \in DOMAIN layers[lastArg.pageId] :
          /\ layers[lastArg.pageId][j].id = lastArg.layerId
          /\ activeLayerId[lastArg.pageId] = lastArg.layerId
          /\ scene[activeObject].id = layers[lastArg.pageId][j].obj

\* C22: setActiveLayer(pageId, null) clears the page's activeLayerId and
\* leaves no object selected on the page's canvas
C22_NullClearsSelection ==
    [][(lastOp' = "setActiveLayer" /\ lastArg'.layerId = 0 /\ PageExists(lastArg'.pageId))
       => /\ activeLayerId'[lastArg'.pageId] = 0
          /\ lastArg'.pageId \in canvasRefs => activeObject' = 0]_vars

\* C29: setActivePage changes activePageId only: when it completes, the pages
\* and their layers are what the store held just before, so no update applied
\* while it was suspended is lost
C29_NoLostUpdate ==
    [][(\/ lastOp' = "setActivePage"
        \/ /\ lastOp' = "persist"
           /\ pending # <<>> /\ Head(pending).then = "resume")
       => (pages' = pages /\ layers' = layers /\ activeLayerId' = activeLayerId)]_vars

\* C26: every entry of canvasRefs is for the page the mounted canvas shows:
\* no entry is left for a page that was switched away from or deleted, or
\* after the canvas is gone
C26_CanvasRefsFresh ==
    \A p \in canvasRefs :
        /\ canvas
        /\ p = activePageId
        /\ \E k \in DOMAIN pages : pages[k] = p

\* C30: whenever the design has a page, activePageId is the id of one of its
\* pages
C30_ActivePageInList ==
    pages # <<>> => \E k \in DOMAIN pages : pages[k] = activePageId

\* C28: with no replay in flight, the object ids the active page's layers
\* refer to are the ids of the objects in the scene
C28_LayersPairedWithObjects ==
    (canvas /\ activePageId # 0 /\ replays = <<>>) =>
        {layers[activePageId][j].obj : j \in DOMAIN layers[activePageId]}
            = {scene[k].id : k \in DOMAIN scene}

\* C27: the i-th layer of the page refers to the i-th object of the scene's
\* z-order, for every i
C27_LayerOrderIsStackingOrder ==
    \A k \in DOMAIN pages :
        /\ Len(layers[pages[k]]) = Len(scene)
        /\ \A i \in DOMAIN scene : layers[pages[k]][i].obj = scene[i].id

C27_Witness ==
    /\ lastOp = "reorderLayers"
    /\ lastCalls # <<>>
    /\ Len(scene) >= 2
    /\ scene[1].id > scene[2].id
    /\ layers[1][1].obj = scene[1].id

\* C24: the intermediate events of a gesture append no snapshot, and the
\* object:modified that ends a gesture made while no replay is in flight
\* appends exactly one
C24_GestureOneSnapshot ==
    [][/\ lastOp' = "moving" =>
            (history' = history /\ currentIndex' = currentIndex /\ lastSaves' = <<>>)
       /\ (lastOp' = "modify" /\ replays = <<>>) =>
            /\ Len(lastSaves') = 1
            /\ ~lastSaves'[1].blocked
            /\ lastSaves'[1].newH # lastSaves'[1].prevH]_vars

\* C25: a loadPageData(P) that runs while no canvas is registered for P loads
\* nothing at that moment (it reads no snapshot) and leaves a load of P
\* scheduled for later
C25_LoadDeferred ==
    [][(lastOp' = "loadPageData" /\ lastArg' \notin canvasRefs)
       => /\ pending' = pending
          /\ \E l \in DOMAIN loads' :
                /\ loads'[l].page = lastArg'
                /\ loads'[l].phase \in {"raf", "timer"}]_vars

\* C23: a failed persistence write is caught inside the action that awaits
\* it: nothing escapes, and the design in memory is left as it was
C23_FailuresContained ==
    [][lastOp' = "persistFail"
       => (~thrown' /\ pages' = pages /\ activePageId' = activePageId)]_vars

====
